---- MODULE Spec2Model ----
(***************************************************************************)
(* conco: text-command dispatcher.  Model of the tokenizer                 *)
(* (conco_tokenizer.hpp), the argument binder and the overload-resolution  *)
(* loop of execute() (conco.hpp), and the integer conversions              *)
(* (conco_types.hpp).                                                      *)
(*                                                                         *)
(* Text is a sequence of one-character strings.  NUL stands for '\0', the  *)
(* terminator of the C string name_and_args.                               *)
(***************************************************************************)
EXTENDS Integers, Sequences, FiniteSets, TLC

NUL == "NUL"
BSL == "\\"
DQ  == "\""
SQ  == "'"

(* ----------------------------------------------------------------------- *)
(* Bounds of the model                                                     *)
(* ----------------------------------------------------------------------- *)
MaxArgs == 4    \* longest argument list of a generated command line
MaxBuf  == 3    \* largest caller buffer (bytes)

(* ----------------------------------------------------------------------- *)
(* tokenizer                                                               *)
(* ----------------------------------------------------------------------- *)

\* mutant of is_whitespace: the comma is not a separator
is_whitespace_without_comma(ch) == ch \in {" ", "\t", NUL}

\* tokenizer::is_whitespace: ch <= ' ' || ch == ','
is_whitespace(ch) == ch \in {" ", "\t", NUL, ","}

\* tokenizer::is_ident_term
is_ident_term(ch) == is_whitespace(ch) \/ ch \in {";", "=", DQ, SQ, "{", "}"}

\* std::optional<std::string_view>
Absent == [has |-> FALSE, val |-> <<>>]
Some(s) == [has |-> TRUE, val |-> s]

RECURSIVE CountWs(_, _)
CountWs(text, i) ==
  IF i < Len(text) /\ is_whitespace(text[i + 1]) THEN CountWs(text, i + 1) ELSE i

\* text.remove_prefix(n)
remove_prefix(text, n) == SubSeq(text, n + 1, Len(text))

\* tokenizer::consume_whitespace
consume_whitespace(text) == remove_prefix(text, CountWs(text, 0))

\* tokenizer::tokenizer(str) / reset(str)
tokenizer(str) == consume_whitespace(str)

\* tokenizer::next_char_is
next_char_is(text, ch) == text # <<>> /\ text[1] = ch

\* mutant of consume_char_if: the whitespace after the character is left in place
consume_char_if_keeps_space(text, ch) ==
  IF next_char_is(text, ch)
  THEN [ok |-> TRUE, text |-> remove_prefix(text, 1)]
  ELSE [ok |-> FALSE, text |-> text]

\* tokenizer::consume_char_if: [ok, text]
consume_char_if(text, ch) ==
  IF next_char_is(text, ch)
  THEN [ok |-> TRUE, text |-> consume_whitespace(remove_prefix(text, 1))]
  ELSE [ok |-> FALSE, text |-> text]

\* mutant of extract_token: the enclosing delimiters stay in the token
extract_token_keeps_delimiters(text, length, trim_ends) ==
  IF length > Len(text)
  THEN [tok |-> Absent, text |-> <<>>]
  ELSE [tok |-> Some(SubSeq(text, 1, length)),
        text |-> consume_whitespace(remove_prefix(text, length))]

\* tokenizer::extract_token: [tok, text]
extract_token(text, length, trim_ends) ==
  IF length > Len(text)
  THEN [tok |-> Absent, text |-> <<>>]
  ELSE [tok |-> Some(IF trim_ends THEN SubSeq(text, 2, length - 1)
                                  ELSE SubSeq(text, 1, length)),
        text |-> consume_whitespace(remove_prefix(text, length))]

\* mutant of IdentScan: a backslash escapes the next character even when the
\* backslash is itself escaped
RECURSIVE IdentScan_every_backslash_escapes(_, _, _)
IdentScan_every_backslash_escapes(text, i, prev_ch) ==
  IF i >= Len(text) THEN i
  ELSE LET ch == text[i + 1] IN
       IF prev_ch # BSL
       THEN IF is_ident_term(ch) THEN i
            ELSE IdentScan_every_backslash_escapes(text, i + 1, ch)
       ELSE IdentScan_every_backslash_escapes(text, i + 1, ch)

\* loop of tokenizer::parse_identifier; i counts the characters scanned
RECURSIVE IdentScan(_, _, _)
IdentScan(text, i, prev_ch) ==
  IF i >= Len(text) THEN i
  ELSE LET ch == text[i + 1] IN
       IF prev_ch # BSL
       THEN IF is_ident_term(ch) THEN i ELSE IdentScan(text, i + 1, ch)
       ELSE IdentScan(text, i + 1, IF ch = BSL THEN NUL ELSE ch)

\* tokenizer::parse_identifier
parse_identifier(text) == extract_token(text, IdentScan(text, 0, NUL), FALSE)

\* loop of tokenizer::parse_quoted_string: [i, closed]
RECURSIVE QuoteScan(_, _, _, _)
QuoteScan(text, i, prev_ch, quote_char) ==
  IF i >= Len(text) THEN [i |-> i, closed |-> FALSE]
  ELSE LET ch == text[i + 1] IN
       IF prev_ch # BSL
       THEN IF ch = quote_char THEN [i |-> i + 1, closed |-> TRUE]
            ELSE QuoteScan(text, i + 1, ch, quote_char)
       ELSE QuoteScan(text, i + 1, IF ch = BSL THEN NUL ELSE ch, quote_char)

\* mutant of parse_quoted_string: an unclosed quote is skipped, not fatal
parse_quoted_string_skips_quote(text) ==
  LET r == QuoteScan(text, 1, NUL, text[1]) IN
  IF ~r.closed THEN [tok |-> Absent, text |-> consume_whitespace(remove_prefix(text, 1))]
  ELSE extract_token(text, r.i, TRUE)

\* tokenizer::parse_quoted_string
parse_quoted_string(text) ==
  LET r == QuoteScan(text, 1, NUL, text[1]) IN
  IF ~r.closed THEN [tok |-> Absent, text |-> <<>>]
  ELSE extract_token(text, r.i, TRUE)

\* mutant of BlockScan: a ';' inside a block is ordinary content
RECURSIVE BlockScan_semicolon_is_content(_, _, _, _, _)
BlockScan_semicolon_is_content(text, i, depth, prev_ch, quote_char) ==
  IF ~(i < Len(text) /\ depth > 0) THEN [i |-> i, depth |-> depth]
  ELSE LET ch == text[i + 1] IN
       IF prev_ch # BSL
       THEN IF quote_char # NUL
            THEN BlockScan_semicolon_is_content(text, i + 1, depth, ch,
                           IF ch = quote_char THEN NUL ELSE quote_char)
            ELSE IF ch \in {DQ, SQ}
                 THEN BlockScan_semicolon_is_content(text, i + 1, depth, ch, ch)
            ELSE IF ch = "{"
                 THEN BlockScan_semicolon_is_content(text, i + 1, depth + 1, ch, quote_char)
            ELSE IF ch = "}" /\ depth = 1 THEN [i |-> i + 1, depth |-> 0]
            ELSE IF ch = "}"
                 THEN BlockScan_semicolon_is_content(text, i + 1, depth - 1, ch, quote_char)
            ELSE BlockScan_semicolon_is_content(text, i + 1, depth, ch, quote_char)
       ELSE BlockScan_semicolon_is_content(text, i + 1, depth,
                                           IF ch = BSL THEN NUL ELSE ch, quote_char)

\* loop of tokenizer::parse_block: [i, depth]; quote_char = NUL means none
RECURSIVE BlockScan(_, _, _, _, _)
BlockScan(text, i, depth, prev_ch, quote_char) ==
  IF ~(i < Len(text) /\ depth > 0) THEN [i |-> i, depth |-> depth]
  ELSE LET ch == text[i + 1] IN
       IF prev_ch # BSL
       THEN IF quote_char # NUL
            THEN BlockScan(text, i + 1, depth, ch,
                           IF ch = quote_char THEN NUL ELSE quote_char)
            ELSE IF ch \in {DQ, SQ} THEN BlockScan(text, i + 1, depth, ch, ch)
            ELSE IF ch = ";" THEN [i |-> i, depth |-> depth]
            ELSE IF ch = "{" THEN BlockScan(text, i + 1, depth + 1, ch, quote_char)
            ELSE IF ch = "}" /\ depth = 1 THEN [i |-> i + 1, depth |-> 0]
            ELSE IF ch = "}" THEN BlockScan(text, i + 1, depth - 1, ch, quote_char)
            ELSE BlockScan(text, i + 1, depth, ch, quote_char)
       ELSE BlockScan(text, i + 1, depth, IF ch = BSL THEN NUL ELSE ch, quote_char)

\* tokenizer::parse_block
parse_block(text) ==
  LET r == BlockScan(text, 1, 1, NUL, NUL) IN
  IF r.depth > 0 THEN [tok |-> Absent, text |-> <<>>]
  ELSE extract_token(text, r.i, TRUE)

\* mutant of next: the ';' that ends the command is consumed
next_consumes_semicolon(text) ==
  IF text = <<>> THEN [tok |-> Absent, text |-> text]
  ELSE IF text[1] \in {DQ, SQ} THEN parse_quoted_string(text)
  ELSE IF text[1] = "{" THEN parse_block(text)
  ELSE IF text[1] = "=" THEN extract_token(text, 1, FALSE)
  ELSE IF text[1] = ";"
       THEN [tok |-> Absent, text |-> consume_whitespace(remove_prefix(text, 1))]
  ELSE parse_identifier(text)

\* tokenizer::next: [tok, text]
next(text) ==
  IF text = <<>> THEN [tok |-> Absent, text |-> text]
  ELSE IF text[1] \in {DQ, SQ} THEN parse_quoted_string(text)
  ELSE IF text[1] = "{" THEN parse_block(text)
  ELSE IF text[1] = "=" THEN extract_token(text, 1, FALSE)
  ELSE IF text[1] = ";" THEN [tok |-> Absent, text |-> text]
  ELSE parse_identifier(text)

(* ----------------------------------------------------------------------- *)
(* conversions (conco_types.hpp)                                           *)
(* ----------------------------------------------------------------------- *)

INT_MAX == 2147483647

\* value of a digit character as std::from_chars reads it (36 = not a digit)
DigitVal(ch) ==
  CASE ch = "0" -> 0 [] ch = "1" -> 1 [] ch = "2" -> 2 [] ch = "3" -> 3
    [] ch = "4" -> 4 [] ch = "5" -> 5 [] ch = "6" -> 6 [] ch = "7" -> 7
    [] ch = "8" -> 8 [] ch = "9" -> 9 [] ch = "a" -> 10 [] ch = "b" -> 11
    [] ch = "c" -> 12 [] ch = "d" -> 13 [] ch = "e" -> 14 [] ch = "f" -> 15
    [] OTHER -> 36

RECURSIVE CountDigits(_, _, _)
CountDigits(str, i, base) ==
  IF i < Len(str) /\ DigitVal(str[i + 1]) < base
  THEN CountDigits(str, i + 1, base) ELSE i

RECURSIVE DigitsValue(_, _, _)
DigitsValue(str, n, base) ==
  IF n = 0 THEN 0
  ELSE DigitsValue(str, n - 1, base) * base + DigitVal(str[n])

\* std::from_chars for a signed 32-bit integer: optional '-', then the longest
\* run of digits of the base; characters after the run are left unread
from_chars(str, base) ==
  LET neg  == str # <<>> /\ str[1] = "-"
      body == IF neg THEN Tail(str) ELSE str
      n    == CountDigits(body, 0, base)
      mag  == DigitsValue(body, n, base)
  IN IF n = 0 THEN [ok |-> FALSE, val |-> 0]
     ELSE IF (neg /\ mag - 1 > INT_MAX) \/ (~neg /\ mag > INT_MAX)
          THEN [ok |-> FALSE, val |-> 0]
          ELSE [ok |-> TRUE, val |-> IF neg THEN 0 - mag ELSE mag]

\* from_string(tag<T>, str) for integral T
from_string_int(str) ==
  IF Len(str) >= 2 /\ str[1] = "0" /\ str[2] \in {"x", "X"}
  THEN from_chars(remove_prefix(str, 2), 16)
  ELSE IF Len(str) >= 2 /\ str[1] = "0" /\ str[2] \in {"b", "B"}
  THEN from_chars(remove_prefix(str, 2), 2)
  ELSE from_chars(str, 10)

\* from_string(tag<std::string_view>, str)
from_string_sv(str) == [ok |-> TRUE, val |-> str]

DigitChar(d) ==
  CASE d = 0 -> "0" [] d = 1 -> "1" [] d = 2 -> "2" [] d = 3 -> "3" [] d = 4 -> "4"
    [] d = 5 -> "5" [] d = 6 -> "6" [] d = 7 -> "7" [] d = 8 -> "8" [] d = 9 -> "9"

RECURSIVE NatDigits(_)
NatDigits(n) ==
  IF n < 10 THEN <<DigitChar(n)>> ELSE Append(NatDigits(n \div 10), DigitChar(n % 10))

\* the characters std::to_chars produces for an integer
IntText(v) == IF v < 0 THEN <<"-">> \o NatDigits(0 - v) ELSE NatDigits(v)

\* buff with the characters of s written from offset 0
Overwrite(buff, s) ==
  [i \in 1..Len(buff) |-> IF i <= Len(s) THEN s[i] ELSE buff[i]]

\* mutant of to_chars_int: no byte is kept for the terminator
to_chars_int_no_terminator_room(buff, value) ==
  LET txt == IntText(value)
  IN IF Len(txt) <= Len(buff)
     THEN {[n |-> Len(txt) + 1, buff |-> Overwrite(buff, Append(txt, NUL))]}
     ELSE {[n |-> 0, buff |-> buff]}

\* to_chars(tag<T>, buff, value) for integral T: the set of outcomes [n, buff].
\* std::to_chars gets the range [data, data + size - 1); on value_too_large the
\* contents of that range are unspecified.
to_chars_int(buff, value) ==
  LET txt  == IntText(value)
      room == Len(buff) - 1
  IN IF Len(txt) <= room
     THEN {[n |-> Len(txt) + 1, buff |-> Overwrite(buff, Append(txt, NUL))]}
     ELSE {[n |-> 0, buff |-> buff],
           [n |-> 0, buff |-> Overwrite(buff, SubSeq(txt, 1, room))]}

(* ----------------------------------------------------------------------- *)
(* command, output, context (conco.hpp)                                    *)
(* ----------------------------------------------------------------------- *)

\* name_and_args[i] for a 0-based i; the C string ends with '\0'
CharAt(str, i) == IF i < Len(str) THEN str[i + 1] ELSE NUL

RECURSIVE MatchLen(_, _, _)
MatchLen(name, name_and_args, i) ==
  IF i < Len(name) /\ name[i + 1] # NUL /\ name[i + 1] = CharAt(name_and_args, i)
  THEN MatchLen(name, name_and_args, i + 1) ELSE i

\* command::operator==(std::string_view name)
command_eq(cmd, name) ==
  LET i == MatchLen(name, cmd.name_and_args, 0)
  IN i = Len(name) /\ is_ident_term(CharAt(cmd.name_and_args, i))

\* std::ranges::find_if(commands, cmd == command_name); Len + 1 is end()
RECURSIVE find_if(_, _, _)
find_if(cmds, name, i) ==
  IF i > Len(cmds) THEN i
  ELSE IF command_eq(cmds[i], name) THEN i
  ELSE find_if(cmds, name, i + 1)

\* mutant of output: the report is initialised from the buffer alone
output_without_cmd(buffer, cmd) ==
  [buffer |-> buffer, cmd |-> 0, arg_error_mask |-> 0, arg_count |-> 0,
   not_enough_arguments |-> FALSE, result_error |-> FALSE]

\* struct output; cmd = 0 is nullptr, otherwise the index of the command
output(buffer, cmd) ==
  [buffer |-> buffer, cmd |-> cmd, arg_error_mask |-> 0, arg_count |-> 0,
   not_enough_arguments |-> FALSE, result_error |-> FALSE]

\* mutant of has_error: a missing argument is not an error
has_error_ignores_missing(out) == out.arg_error_mask # 0 \/ out.result_error

\* output::has_error
has_error(out) ==
  out.arg_error_mask # 0 \/ out.not_enough_arguments \/ out.result_error

RECURSIVE Pow2(_)
Pow2(n) == IF n = 0 THEN 1 ELSE 2 * Pow2(n - 1)

BitSet(mask, k) == (mask \div Pow2(k)) % 2 = 1

\* mask |= 1u << k
BitOr(mask, k) == IF BitSet(mask, k) THEN mask ELSE mask + Pow2(k)

\* context::next_arg_value, the default side (lines 1074-1080):
\* default_args.next() skips the argument's name; a value follows only after
\* '='. [tok, text] = the default value and default_args afterwards
default_value_after(eq) ==
  IF eq.ok THEN next(eq.text) ELSE [tok |-> Absent, text |-> eq.text]

default_value_of(d1) ==
  IF d1.tok.has THEN default_value_after(consume_char_if(d1.text, "="))
  ELSE [tok |-> Absent, text |-> d1.text]

\* mutant of arg_or_default: a registered default wins over the line's token
arg_or_default_prefers_default(d, a) ==
  [arg |-> IF d.tok.has THEN d.tok ELSE a.tok,
   args |-> a.text, default_args |-> d.text]

\* context::next_arg_value, the argument side (lines 1082-1085): the token of
\* the command line, or the default when the line has none
arg_or_default(d, a) ==
  [arg |-> IF ~a.tok.has /\ d.tok.has THEN d.tok ELSE a.tok,
   args |-> a.text, default_args |-> d.text]

\* context::next_arg_value: [arg, args, default_args]
next_arg_value(ctx) ==
  arg_or_default(default_value_of(next(ctx.default_args)), next(ctx.args))

\* from_string(tag<S>, str) by storage type
from_string(type, str) ==
  IF type = "string_view" THEN from_string_sv(str) ELSE from_string_int(str)

\* S{} by argument type
ZeroValue(type) ==
  CASE type = "int" -> 0
    [] type = "string_view" -> <<>>
    [] type = "optional_int" -> [has |-> FALSE, val |-> 0]

\* parse(): a token was obtained; ++arg_count, then the conversion's outcome
parse_token(type, ctx, conv) ==
  IF conv.ok
  THEN [ctx |-> [ctx EXCEPT !.out.arg_count = @ + 1],
        val |-> IF type = "optional_int"
                THEN [has |-> TRUE, val |-> conv.val] ELSE conv.val,
        st |-> "ok"]
  ELSE [ctx |-> [ctx EXCEPT !.out.arg_count = @ + 1,
                            !.out.arg_error_mask = BitOr(@, ctx.out.arg_count)],
        val |-> ZeroValue(type), st |-> "bad"]

\* mutant of parse_missing: a missing optional argument counts as missing
parse_missing_flags_optional(type, ctx) ==
  [ctx |-> [ctx EXCEPT !.out.not_enough_arguments = TRUE],
   val |-> ZeroValue(type), st |-> "none"]

\* parse(): no token and no default
parse_missing(type, ctx) ==
  IF type = "optional_int"
  THEN [ctx |-> ctx, val |-> ZeroValue(type), st |-> "none"]
  ELSE [ctx |-> [ctx EXCEPT !.out.not_enough_arguments = TRUE],
        val |-> ZeroValue(type), st |-> "none"]

\* parse() once next_arg_value() has returned nv; ctx has the streams advanced
parse_arg(type, ctx, nv) ==
  IF nv.arg.has
  THEN parse_token(type, ctx,
                   from_string(IF type = "optional_int" THEN "int" ELSE type,
                               nv.arg.val))
  ELSE parse_missing(type, ctx)

\* the context after next_arg_value() moved both tokenizers
advanced(ctx, nv) == [ctx EXCEPT !.args = nv.args, !.default_args = nv.default_args]

parse_next(type, ctx, nv) == parse_arg(type, advanced(ctx, nv), nv)

\* parse(tag<T>, ctx), parse(tag<std::optional<T>>, ctx), parse(tag<tokenizer>, ctx):
\* [ctx, val, st]; st records what happened at this position:
\* "ok" converted, "bad" token failed to convert, "none" no token, "tail" the
\* parameter is the tokenizer ctx.args itself (a reference: val is its text
\* at this moment)
parse(type, ctx) ==
  IF type = "tokenizer" THEN [ctx |-> ctx, val |-> ctx.args, st |-> "tail"]
  ELSE parse_next(type, ctx, next_arg_value(ctx))

\* detail::make_args_tuple: parse() for every argument, left to right:
\* [ctx, vals, sts]
RECURSIVE make_args_tuple(_, _, _, _)
make_args_tuple_rest(types, vals, sts, r) ==
  make_args_tuple(types, r.ctx, Append(vals, r.val), Append(sts, r.st))

make_args_tuple(types, ctx, vals, sts) ==
  IF Len(vals) = Len(types) THEN [ctx |-> ctx, vals |-> vals, sts |-> sts]
  ELSE make_args_tuple_rest(types, vals, sts, parse(types[Len(vals) + 1], ctx))

(* ----------------------------------------------------------------------- *)
(* handlers registered by the tests, and the invoker                       *)
(* ----------------------------------------------------------------------- *)

RECURSIVE SumVals(_)
SumVals(vals) == IF vals = <<>> THEN 0 ELSE Head(vals) + SumVals(Tail(vals))

\* C++ integer division truncates toward zero
TruncDiv(x, y) ==
  LET ax == IF x < 0 THEN 0 - x ELSE x
      ay == IF y < 0 THEN 0 - y ELSE y
      q  == ax \div ay
  IN IF (x < 0) = (y < 0) THEN q ELSE 0 - q

\* the tokens a handler reads from its tokenizer parameter:
\* while ( ( token = args.next() ).has_value() )
RECURSIVE drain_rest(_)
drain(args) == drain_rest(next(args))

drain_rest(r) == IF r.tok.has THEN <<r.tok.val>> \o drain(r.text) ELSE <<>>

\* value of a token for sum_all: 0 when from_string fails
value_of(conv) == IF conv.ok THEN conv.val ELSE 0

RECURSIVE sum_tokens(_)
sum_tokens(toks) ==
  IF toks = <<>> THEN 0
  ELSE value_of(from_string_int(Head(toks))) + sum_tokens(Tail(toks))

\* int sum_all( conco::tokenizer &args )
sum_all(args) == sum_tokens(drain(args))

\* the command bodies: [throws, void, ret]
\*   sum              x + y + ...                    (tests: bar, overload, sum)
\*   nop              void lambda                    (tests: foo)
\*   throwing_divide  throws when y == 0, else x / y
\*   size             str.size()                     (tests: compute)
\*   value_or         x.value_or(42)                 (tests: foo(optional<int>))
\*   sum_all          sum of the tokens left in args (tests: sum_all); drained
\*                    records the tokens it read
\*   sum_around       sum_all between two int parameters
handler(fn, vals) ==
  CASE fn = "sum" -> [throws |-> FALSE, void |-> FALSE, ret |-> SumVals(vals)]
    [] fn = "nop" -> [throws |-> FALSE, void |-> TRUE, ret |-> 0]
    [] fn = "throwing_divide" ->
         IF vals[2] = 0 THEN [throws |-> TRUE, void |-> FALSE, ret |-> 0]
         ELSE [throws |-> FALSE, void |-> FALSE, ret |-> TruncDiv(vals[1], vals[2])]
    [] fn = "size" -> [throws |-> FALSE, void |-> FALSE, ret |-> Len(vals[1])]
    [] fn = "value_or" ->
         [throws |-> FALSE, void |-> FALSE,
          ret |-> (IF vals[1].has THEN vals[1].val ELSE 42) + SumVals(Tail(vals))]
    [] fn = "sum_all" ->
         [throws |-> FALSE, void |-> FALSE, ret |-> sum_all(vals[1]),
          drained |-> drain(vals[1])]
    [] fn = "sum_around" ->
         [throws |-> FALSE, void |-> FALSE,
          ret |-> vals[1] + sum_all(vals[2]) + vals[3],
          drained |-> drain(vals[2])]

\* detail::apply<RT>: the set of outcomes [thrown, out]
apply(out, h) ==
  LET o == [out EXCEPT !.result_error = FALSE] IN
  IF h.throws THEN {[thrown |-> TRUE, out |-> o]}
  ELSE IF o.buffer = <<>> THEN {[thrown |-> FALSE, out |-> o]}
  ELSE IF h.void
  THEN {[thrown |-> FALSE, out |-> [o EXCEPT !.buffer[1] = NUL]]}
  ELSE {[thrown |-> FALSE,
         out |-> [o EXCEPT !.buffer = r.buff, !.result_error = (r.n = 0)]] :
        r \in to_chars_int(o.buffer, h.ret)}

\* the outcome of call when binding failed: the callable is not invoked
not_called(t) ==
  [ret |-> "false", out |-> t.ctx.out, args |-> t.ctx.args, called |-> FALSE,
   h |-> [throws |-> FALSE, void |-> TRUE, ret |-> 0],
   vals |-> t.vals, sts |-> t.sts]

\* mutant of call_apply: the invoker reports failure after a successful invocation
call_apply_reports_false(t, h) ==
  {[ret |-> IF a.thrown THEN "throw" ELSE "false", out |-> a.out,
    args |-> t.ctx.args, called |-> TRUE, h |-> h,
    vals |-> t.vals, sts |-> t.sts] :
   a \in apply(t.ctx.out, h)}

\* mutant of call_apply: an exception of the handler is caught and reported as
\* failure
call_apply_catches(t, h) ==
  {[ret |-> IF a.thrown THEN "false" ELSE "true", out |-> a.out,
    args |-> t.ctx.args, called |-> TRUE, h |-> h,
    vals |-> t.vals, sts |-> t.sts] :
   a \in apply(t.ctx.out, h)}

\* function_invoker::call, lines 1377-1380: apply() and `return true`; nothing
\* catches what the callable throws
call_apply(t, h) ==
  {[ret |-> IF a.thrown THEN "throw" ELSE "true", out |-> a.out,
    args |-> t.ctx.args, called |-> TRUE, h |-> h,
    vals |-> t.vals, sts |-> t.sts] :
   a \in apply(t.ctx.out, h)}

\* mutant of map: a tokenizer parameter is the copy made when it was parsed
map_by_value(val, st, ctx) == val

\* type_mapper<Args>::map: a tokenizer parameter is the reference to ctx.args
\* (ref_type_mapper<tokenizer &>), read when the callable is called
map(val, st, ctx) == IF st = "tail" THEN ctx.args ELSE val

\* the arguments the callable is called with
mapped_args(t) == [p \in 1..Len(t.vals) |-> map(t.vals[p], t.sts[p], t.ctx)]

\* mutant of call_bound: a token left on the line is an error
call_bound_rejects_surplus(cmd, t) ==
  IF has_error(t.ctx.out) \/ next(t.ctx.args).tok.has THEN {not_called(t)}
  ELSE call_apply(t, handler(cmd.fn, mapped_args(t)))

\* function_invoker::call once the arguments are bound (t)
call_bound(cmd, t) ==
  IF has_error(t.ctx.out) THEN {not_called(t)}
  ELSE call_apply(t, handler(cmd.fn, mapped_args(t)))

\* function_invoker::call: the set of outcomes
\* [ret, out, args, called, h, vals, sts]; ret is "true", "false" or "throw",
\* args is ctx.args when call ends, h the handler's outcome when it was called
call(cmd, ctx) == call_bound(cmd, make_args_tuple(cmd.types, ctx, <<>>, <<>>))

\* mutant of tok_after_call: the context shares execute's tokenizer
tok_after_call_shared(t, ctx_args) == ctx_args

\* context::args is a tokenizer held by value (line 1068), copy-initialised
\* from tok (line 1512): parsing a candidate leaves execute's tok where it was
tok_after_call(t, ctx_args) == t

(* ----------------------------------------------------------------------- *)
(* command tables and command lines                                        *)
(* ----------------------------------------------------------------------- *)

command(name_and_args, types, fn) ==
  [name_and_args |-> name_and_args, types |-> types, fn |-> fn]

Ints(n) == [i \in 1..n |-> "int"]

\* "overload" x3: int(int,int,int,int), int(int,int,int), int(int,int)
OverloadTable ==
  << command(<<"f">>, Ints(4), "sum"),
     command(<<"f">>, Ints(3), "sum"),
     command(<<"f">>, Ints(2), "sum") >>

\* "bar x=1 y = 2 z= 3 w =4;Compute sum of four integers"
DefaultsTable ==
  << command(<<"f", " ", "x", "=", "1", " ", "y", " ", "=", " ", "2", " ",
               "z", "=", " ", "3", " ", "w", " ", "=", "4", ";", "s">>,
             Ints(4), "sum") >>

\* "compute x y=100;..." int(int,int) and "compute;..." size_t(string_view)
ComputeTable ==
  << command(<<"f", " ", "x", " ", "y", "=", "1", "2", ";", "s">>, Ints(2), "sum"),
     command(<<"f", ";", "s">>, <<"string_view">>, "size") >>

\* "divide;Divide two integers" with throwing_divide, followed by an overload
DivideTable ==
  << command(<<"g", ";", "d">>, Ints(2), "throwing_divide"),
     command(<<"g">>, Ints(1), "sum") >>

\* "foo": void(int,int,int,int)
FooTable == << command(<<"f">>, Ints(4), "nop") >>

\* names that are prefixes and extensions of each other, with argument names
NamesTable ==
  << command(<<"f", "x", " ", "y">>, Ints(1), "sum"),
     command(<<"f", " ", "x", " ", "y", "=", "2">>, Ints(2), "sum"),
     command(<<"g", "=", "1">>, Ints(1), "sum") >>

\* a registration string whose identifier portion is empty
NoNameTable ==
  << command(<<"f">>, Ints(1), "sum"),
     command(<<";", "s">>, <<>>, "nop") >>

\* a default that does not convert, after an argument that may be omitted
BadDefaultTable ==
  << command(<<"f", " ", "x", " ", "y", "=", "a">>, <<"optional_int", "int">>,
             "value_or") >>

\* "foo x;Return the value of x or 42 if not provided": int(std::optional<int>)
OptionalTable ==
  << command(<<"f", " ", "x", ";", "s">>, <<"optional_int">>, "value_or") >>

\* "sum_all;Sum all arguments": int(conco::tokenizer &)
TailTable == << command(<<"f", ";", "s">>, <<"tokenizer">>, "sum_all") >>

\* a tokenizer parameter between two int parameters, the second with a default
TailMiddleTable ==
  << command(<<"f", " ", "x", " ", "y", "=", "7">>, <<"int", "tokenizer", "int">>,
             "sum_around") >>

\* two commands of one name with a command of another name between them
SplitTable ==
  << command(<<"f">>, Ints(2), "sum"),
     command(<<"g">>, Ints(1), "sum"),
     command(<<"f">>, Ints(1), "sum") >>

\* a shorter overload registered before a longer one
ShadowTable ==
  << command(<<"f">>, Ints(1), "sum"),
     command(<<"f">>, Ints(2), "sum") >>

\* a description that reads like a parameter with a default: "f; x=1"
DescribedTable ==
  << command(<<"f", ";", " ", "x", "=", "1">>, Ints(1), "sum") >>

Tables ==
  { OverloadTable, DefaultsTable, ComputeTable, DivideTable, FooTable,
    NamesTable, NoNameTable, BadDefaultTable, OptionalTable, TailTable,
    TailMiddleTable, SplitTable, DescribedTable, ShadowTable }

NameTokens ==
  { <<"f">>, <<"g">>, <<"f", "x">>, <<"h">>, <<SQ, "f", " ", "x", SQ>> }

ArgTokens == { <<"1">>, <<"0">>, <<"a">> }

RECURSIVE ArgLists(_)
ArgLists(n) ==
  IF n = 0 THEN { <<>> }
  ELSE LET shorter == ArgLists(n - 1)
       IN shorter \cup { Append(l, t) : l \in { x \in shorter : Len(x) = n - 1 },
                                         t \in ArgTokens }

RECURSIVE JoinArgs(_)
JoinArgs(l) == IF l = <<>> THEN <<>> ELSE <<" ">> \o Head(l) \o JoinArgs(Tail(l))

\* lines without a command-name token, and lines with quotes, commas and ';'
SpecialLines ==
  { <<>>, <<" ">>, <<",", " ", ",">>, <<";">>, <<" ", ";", "f", " ", "1">>,
    <<SQ, SQ>>, <<SQ, "f">>, <<SQ, "f", ";", SQ>>,
    <<",", "f", ",", "1", ",", ",", "1", " ">>,
    <<"f", " ", "1", ";", " ", "1">>,
    <<"f", " ", SQ, "1", SQ, " ", DQ, "1", DQ>>,
    <<"f", " ", SQ, "1">>,
    <<"f", " ", "1", "a", " ", "0", "x", "a", " ", "-", "1">>,
    <<"g", " ", "1", "2", " ", "-", "1">> }

Lines ==
  { n \o JoinArgs(l) : n \in NameTokens, l \in ArgLists(MaxArgs) } \cup SpecialLines

\* the caller's buffer before the call: s bytes the dispatcher has not written
FreshBuffer(s) == [i \in 1..s |-> "#"]

\* an output report as the caller hands it in: new, or left over from an
\* earlier execute on the same table: one that succeeded on commands[1] with a
\* result too long for the buffer, and one that failed on commands[1]
InitOuts ==
  { output(FreshBuffer(s), 0) : s \in 0..MaxBuf } \cup
  { [buffer |-> FreshBuffer(MaxBuf), cmd |-> 1, arg_error_mask |-> 0, arg_count |-> 1,
     not_enough_arguments |-> FALSE, result_error |-> TRUE],
    [buffer |-> FreshBuffer(0), cmd |-> 1, arg_error_mask |-> 1, arg_count |-> 1,
     not_enough_arguments |-> TRUE, result_error |-> FALSE] }

(* ----------------------------------------------------------------------- *)
(* execute()                                                               *)
(* ----------------------------------------------------------------------- *)

VARIABLES
  commands,        \* std::span<const command>
  cmd_line,        \* the line passed to execute
  out,             \* struct output &out
  pc,              \* "idle", "loop", "returned", "thrown"
  tok,             \* tokenizer tok (its text) after the command name
  command_name,    \* first token, or empty
  cmd_iter,        \* index into commands; Len(commands) + 1 is end()
  overload_count,
  res,             \* the returned result, "none" while running or thrown
  attempted,       \* history: indices of the commands whose invoker ran
  invoked,         \* history: [cmd, args, h] of every handler call
  bound,           \* history: [vals, sts] of the last make_args_tuple
  buf0,            \* history: the buffer as it was when execute was entered
  emitted,         \* history: [before, tok, text] of every next() on a tokenizer
  calls,           \* concurrent execute calls on commands: thread -> its frame
  fmt              \* a to_chars call: [type, value, buff, n, past, trapped, done]

vars == << commands, cmd_line, out, pc, tok, command_name, cmd_iter,
           overload_count, res, attempted, invoked, bound, buf0, emitted,
           calls, fmt >>

Init ==
  /\ commands \in Tables
  /\ out \in InitOuts
  /\ cmd_line = <<>>
  /\ pc = "idle"
  /\ tok = <<>>
  /\ command_name = <<>>
  /\ cmd_iter = 0
  /\ overload_count = 0
  /\ res = "none"
  /\ attempted = <<>>
  /\ invoked = <<>>
  /\ bound = [vals |-> <<>>, sts |-> <<>>]
  /\ buf0 = out.buffer
  /\ emitted = <<>>
  /\ calls = <<>>
  /\ fmt = <<>>

\* execute, lines 1498-1505: tokenize the name and find the first command
ExecuteLookup(line) ==
  /\ pc = "idle"
  /\ LET first == next(tokenizer(line))
         name  == IF first.tok.has THEN first.tok.val ELSE <<>>
         it    == find_if(commands, name, 1)
     IN /\ cmd_line' = line
        /\ tok' = first.text
        /\ command_name' = name
        /\ cmd_iter' = it
        /\ IF it > Len(commands)
           THEN pc' = "returned" /\ res' = "command_not_found"
           ELSE pc' = "loop" /\ res' = res
  /\ UNCHANGED << commands, out, overload_count, attempted, invoked, bound, buf0,
                  emitted, calls, fmt >>

\* mutant of exhausted_result: a set error bit wins over the missing argument
exhausted_result_mask_first(count, o) ==
  IF count = 1
  THEN IF o.not_enough_arguments /\ o.arg_error_mask = 0
       THEN "not_enough_arguments" ELSE "argument_parsing_error"
  ELSE IF count > 1 THEN "no_matching_overload" ELSE "command_not_found"

\* the value execute returns after the loop, lines 1525-1528
exhausted_result(count, o) ==
  IF count = 1
  THEN IF o.not_enough_arguments THEN "not_enough_arguments"
                                 ELSE "argument_parsing_error"
  ELSE IF count > 1 THEN "no_matching_overload" ELSE "command_not_found"

\* one iteration of the while loop of execute, lines 1507-1523, and the
\* return that follows it
ExecuteTry ==
  /\ pc = "loop"
  /\ LET cmd == commands[cmd_iter]
         default_args == tokenizer(remove_prefix(cmd.name_and_args, Len(command_name)))
         ctx == [args |-> tok, default_args |-> default_args,
                 out |-> output(out.buffer, cmd_iter)]
         nxt == cmd_iter + 1
     IN \E r \in call(cmd, ctx) :
          /\ overload_count' = overload_count + 1
          /\ out' = r.out
          /\ attempted' = Append(attempted, cmd_iter)
          /\ tok' = tok_after_call(tok, r.args)
          /\ bound' = [vals |-> r.vals, sts |-> r.sts]
          /\ invoked' = IF r.called
                        THEN Append(invoked,
                                    [cmd |-> cmd_iter, args |-> r.vals, h |-> r.h])
                        ELSE invoked
          /\ CASE r.ret = "true" ->
                    pc' = "returned" /\ res' = "success" /\ cmd_iter' = cmd_iter
               [] r.ret = "throw" ->
                    pc' = "thrown" /\ res' = res /\ cmd_iter' = cmd_iter
               [] r.ret = "false" ->
                    /\ cmd_iter' = nxt
                    /\ IF nxt > Len(commands) \/ ~command_eq(commands[nxt], command_name)
                       THEN /\ pc' = "returned"
                            /\ res' = exhausted_result(overload_count + 1, r.out)
                       ELSE pc' = "loop" /\ res' = res
  /\ UNCHANGED << commands, cmd_line, command_name, buf0, emitted, calls, fmt >>

Next == (\E line \in Lines : ExecuteLookup(line)) \/ ExecuteTry

Spec == Init /\ [][Next]_vars

(* ----------------------------------------------------------------------- *)
(* a tokenizer on its own: tokenizer tok( str ); tok.next(); tok.next(); ...*)
(* ----------------------------------------------------------------------- *)

MaxLen   == 4    \* longest generated input string
MaxCalls == 5    \* next() calls made on one tokenizer

\* the characters the tokenizer tells apart, and a letter
Alphabet == { "a", " ", ",", ";", "=", "{", "}", SQ, DQ, BSL }

\* inputs of the tokenizer tests, shortened to one-letter words
TestTexts ==
  { <<"a", " ", "b", ",", " ", "c", ";", "d">>,
    <<"a", " ", "{", "b", " ", "{", "c", "}", " ", "a", "}", " ", "b">>,
    <<"a", " ", "{", "b", " ", SQ, "{", "c", "}", SQ, "}", " ", "d">>,
    <<"{", "a", ";", "b", "}", " ", "c">>,
    <<"{", "a", BSL, ";", "b", "}", " ", "c">>,
    <<"{", SQ, "a", ";", "b", SQ, "}", " ", "c">>,
    <<SQ, "a", ";", "b", SQ, " ", "c">>,
    <<"a", BSL, " ", "b", BSL, ";", "c", " ", "d">>,
    <<SQ, "a", BSL, SQ, "b", SQ, " ", "c">>,
    <<"a", BSL, BSL, SQ, "b", " ", "c", SQ>>,
    <<"{", "{", "}", "{", "}", "}", "{", "}">>,
    <<"{", " ", "a", ",", "}", "b">>,
    <<DQ, "a", SQ, DQ, "b">>, <<DQ, "a", SQ>>, <<"{", DQ, "}", DQ, "}", "a">> }

\* every string of at most MaxLen characters of the alphabet, and the test inputs
IsText(str) ==
  \/ \E n \in 0..MaxLen : str \in [1..n -> Alphabet]
  \/ str \in TestTexts

TokInit ==
  /\ IsText(cmd_line)
  /\ tok = tokenizer(cmd_line)
  /\ emitted = <<>>
  /\ pc = "tokenizing"
  /\ commands = <<>>
  /\ out = output(<<>>, 0)
  /\ command_name = <<>>
  /\ cmd_iter = 0
  /\ overload_count = 0
  /\ res = "none"
  /\ attempted = <<>>
  /\ invoked = <<>>
  /\ bound = [vals |-> <<>>, sts |-> <<>>]
  /\ buf0 = <<>>
  /\ calls = <<>>
  /\ fmt = <<>>

\* the record of one next(): the text before, what was returned, the text after
emission(before, r) == [before |-> before, tok |-> r.tok, text |-> r.text]

\* tok.next()
TokNextCall ==
  /\ pc = "tokenizing"
  /\ Len(emitted) < MaxCalls
  /\ tok' = next(tok).text
  /\ emitted' = Append(emitted, emission(tok, next(tok)))
  /\ UNCHANGED << commands, cmd_line, out, pc, command_name, cmd_iter,
                  overload_count, res, attempted, invoked, bound, buf0, calls, fmt >>

TokNext == TokNextCall

TokSpec == TokInit /\ [][TokNext]_vars

(* ----------------------------------------------------------------------- *)
(* execute() called from two threads on one command table                  *)
(* ----------------------------------------------------------------------- *)

Threads == {"t1", "t2"}

\* the tables and lines of the concurrent calls
SharedTables == { OverloadTable, DefaultsTable, ComputeTable, DivideTable }

SharedLines ==
  { <<>>, <<"h">>, <<"f">>, <<"f", " ", "1">>, <<"f", " ", "a", " ", "1">>,
    <<"f", " ", "1", " ", "0">>, <<"f", " ", "1", " ", "0", " ", "1">>,
    <<"f", " ", "1", " ", "0", " ", "1", " ", "1">>,
    <<"g", " ", "1", " ", "0">>, <<"g", " ", "1", "2", " ", "-", "1">> }

\* the output report of a call: each call has its own
OwnOuts == { output(FreshBuffer(s), 0) : s \in {1, MaxBuf} }

\* the frame of one execute call: its parameters cmd_line and out (out0 is the
\* report as passed in) and its automatic variables
frame_of(line, o) ==
  [cmd_line |-> line, out |-> o, out0 |-> o, pc |-> "idle", tok |-> <<>>,
   command_name |-> <<>>, cmd_iter |-> 0, overload_count |-> 0, res |-> "none",
   overlapped |-> FALSE]

\* execute, lines 1498-1505, on a frame
found(cmds, st, first, it) ==
  [st EXCEPT !.tok = first.text,
             !.command_name = IF first.tok.has THEN first.tok.val ELSE <<>>,
             !.cmd_iter = it,
             !.pc = IF it > Len(cmds) THEN "returned" ELSE "loop",
             !.res = IF it > Len(cmds) THEN "command_not_found" ELSE "none"]

lookup_token(cmds, st, first) ==
  found(cmds, st, first,
        find_if(cmds, IF first.tok.has THEN first.tok.val ELSE <<>>, 1))

lookup_step(cmds, st) == lookup_token(cmds, st, next(tokenizer(st.cmd_line)))

\* execute, lines 1516-1528, on a frame: what follows the invoker's return r
after_call(cmds, st, r) ==
  IF r.ret = "true"
  THEN [st EXCEPT !.out = r.out, !.overload_count = @ + 1,
                  !.pc = "returned", !.res = "success"]
  ELSE IF r.ret = "throw"
  THEN [st EXCEPT !.out = r.out, !.overload_count = @ + 1, !.pc = "thrown"]
  ELSE IF st.cmd_iter + 1 > Len(cmds) \/
          ~command_eq(cmds[st.cmd_iter + 1], st.command_name)
  THEN [st EXCEPT !.out = r.out, !.overload_count = @ + 1,
                  !.cmd_iter = @ + 1, !.pc = "returned",
                  !.res = exhausted_result(st.overload_count + 1, r.out)]
  ELSE [st EXCEPT !.out = r.out, !.overload_count = @ + 1, !.cmd_iter = @ + 1]

\* execute, lines 1507-1514, on a frame: the context of one loop iteration
context_of(cmds, st) ==
  [args |-> st.tok,
   default_args |-> tokenizer(remove_prefix(cmds[st.cmd_iter].name_and_args,
                                            Len(st.command_name))),
   out |-> output(st.out.buffer, st.cmd_iter)]

\* one iteration of the loop on a frame: the set of frames that can follow
try_steps(cmds, st) ==
  { after_call(cmds, st, r) : r \in call(cmds[st.cmd_iter], context_of(cmds, st)) }

\* mutant of frame: overload_count is one counter shared by the calls
frame_shared_count(cs, t) ==
  [cs[t] EXCEPT !.overload_count = cs["t1"].overload_count + cs["t2"].overload_count]

\* the frame of thread t's call: parameters and automatic variables are the
\* call's own (lines 1496-1512)
frame(cs, t) == cs[t]

ConcInit ==
  /\ commands \in SharedTables
  /\ calls \in [Threads -> { frame_of(line, o) : line \in SharedLines, o \in OwnOuts }]
  /\ cmd_line = <<>>
  /\ out = output(<<>>, 0)
  /\ pc = "concurrent"
  /\ tok = <<>>
  /\ command_name = <<>>
  /\ cmd_iter = 0
  /\ overload_count = 0
  /\ res = "none"
  /\ attempted = <<>>
  /\ invoked = <<>>
  /\ bound = [vals |-> <<>>, sts |-> <<>>]
  /\ buf0 = <<>>
  /\ emitted = <<>>
  /\ fmt = <<>>

\* history: the call of thread t has taken a step while another call was
\* inside its loop
overlap(cs, t, st) ==
  [st EXCEPT !.overlapped = @ \/ \E u \in Threads \ {t} : cs[u].pc = "loop"]

\* thread t runs execute up to the name lookup
ThreadLookup(t) ==
  /\ pc = "concurrent"
  /\ calls[t].pc = "idle"
  /\ calls' = [calls EXCEPT ![t] =
                 overlap(calls, t, lookup_step(commands, frame(calls, t)))]
  /\ UNCHANGED << commands, cmd_line, out, pc, tok, command_name, cmd_iter,
                  overload_count, res, attempted, invoked, bound, buf0, emitted,
                  fmt >>

\* thread t runs one iteration of the overload loop
ThreadTry(t) ==
  /\ pc = "concurrent"
  /\ calls[t].pc = "loop"
  /\ \E st \in try_steps(commands, frame(calls, t)) :
       calls' = [calls EXCEPT ![t] = overlap(calls, t, st)]
  /\ UNCHANGED << commands, cmd_line, out, pc, tok, command_name, cmd_iter,
                  overload_count, res, attempted, invoked, bound, buf0, emitted,
                  fmt >>

ConcNext == \E t \in Threads : ThreadLookup(t) \/ ThreadTry(t)

ConcSpec == ConcInit /\ [][ConcNext]_vars

(* ----------------------------------------------------------------------- *)
(* to_chars on its own: to_chars( tag<T>{}, buff, value )                  *)
(* ----------------------------------------------------------------------- *)

MaxElems  == 3    \* most elements of a formatted vector
MaxStr    == 3    \* longest formatted string
MaxFmtBuf == 8    \* largest formatting buffer

\* the elements of the formatted vectors
Elems == {0, 7, 12, -1}

\* the characters of the formatted strings
StrChars == {"a", SQ, DQ, BSL}

\* detail::to_chars_append( b, v, true ), b being buff from offset off on: the
\* element's to_chars wrote r into the part of buff behind the space
\* [ok, buff, off]
appended(head, off, r) ==
  [ok |-> r.n # 0, buff |-> head \o r.buff,
   off |-> IF r.n # 0 THEN off + r.n ELSE off + 1]

to_chars_append(buff, off, value) ==
  IF Len(buff) - off < 2 THEN {[ok |-> FALSE, buff |-> buff, off |-> off]}
  ELSE { appended(Append(SubSeq(buff, 1, off), " "), off, r) :
         r \in to_chars_int(SubSeq(buff, off + 2, Len(buff)), value) }

\* for ( const auto &v : value ) of to_chars(tag<std::vector<T, A>>) and
\* to_chars(tag<std::span<T>>): the set of [ok, buff, off] after the loop
RECURSIVE append_each(_, _)
append_each(st, value) ==
  IF ~st.ok \/ value = <<>> THEN {st}
  ELSE UNION { append_each(st2, Tail(value)) :
               st2 \in to_chars_append(st.buff, st.off, Head(value)) }

\* the end of to_chars(tag<std::vector<T, A>>): buff[0] = '{'; b[0] = '}';
\* b[1] = '\0'; return b.data() - buff.data() + 2
close_block(st) ==
  IF ~st.ok \/ Len(st.buff) - st.off < 2 THEN [n |-> 0, buff |-> st.buff]
  ELSE [n |-> st.off + 2,
        buff |-> [st.buff EXCEPT ![1] = "{", ![st.off + 1] = "}",
                                 ![st.off + 2] = NUL]]

\* to_chars(tag<std::vector<T, A>>, buff, value), the same code as
\* to_chars(tag<std::span<T>>, buff, value): the set of outcomes [n, buff]
to_chars_vector(buff, value) ==
  IF Len(buff) < 3 THEN {[n |-> 0, buff |-> buff]}
  ELSE { close_block(st) :
         st \in append_each([ok |-> TRUE, buff |-> buff, off |-> 0], value) }

\* how many times ch occurs in value
RECURSIVE count_char(_, _)
count_char(value, ch) ==
  IF value = <<>> THEN 0
  ELSE (IF Head(value) = ch THEN 1 ELSE 0) + count_char(Tail(value), ch)

Max2(a, b) == IF a >= b THEN a ELSE b

\* the second loop of to_chars(tag<std::string_view>): the characters written
\* for value
RECURSIVE escaped(_, _)
escaped(value, quote_char) ==
  IF value = <<>> THEN <<>>
  ELSE (IF Head(value) = quote_char \/ Head(value) = BSL THEN <<BSL>> ELSE <<>>)
       \o <<Head(value)>> \o escaped(Tail(value), quote_char)

\* buff[i++] = ... for the characters of txt in a buffer that may be shorter:
\* writing behind the end of the span is undefined, the bytes land in the
\* memory that follows (past) or the write traps
written(buff, txt) ==
  IF Len(txt) <= Len(buff)
  THEN {[n |-> Len(txt), buff |-> Overwrite(buff, txt), past |-> <<>>,
         trapped |-> FALSE]}
  ELSE {[n |-> Len(txt), buff |-> Overwrite(buff, txt),
         past |-> SubSeq(txt, Len(buff) + 1, Len(txt)), trapped |-> FALSE],
        [n |-> 0, buff |-> Overwrite(buff, txt), past |-> <<>>, trapped |-> TRUE]}

\* the writing part of to_chars(tag<std::string_view>), lines 193-206
write_quoted(buff, value, quote_char) ==
  written(buff, <<quote_char>> \o escaped(value, quote_char) \o <<quote_char, NUL>>)

\* to_chars(tag<std::string_view>, buff, value): the set of outcomes
\* [n, buff, past, trapped]
to_chars_sv_checked(buff, value, num_single_quotes, num_double_quotes) ==
  IF Len(buff) < Len(value) + 3 + Max2(num_double_quotes, num_single_quotes)
  THEN {[n |-> 0, buff |-> buff, past |-> <<>>, trapped |-> FALSE]}
  ELSE write_quoted(buff, value,
                    IF num_double_quotes <= num_single_quotes THEN DQ ELSE SQ)

to_chars_sv(buff, value) ==
  to_chars_sv_checked(buff, value, count_char(value, SQ), count_char(value, DQ))

to_chars_call(type, value, buff) ==
  [type |-> type, value |-> value, buff |-> buff, n |-> 0, past |-> <<>>,
   trapped |-> FALSE, done |-> FALSE]

FmtInit ==
  /\ \E s \in 0..MaxFmtBuf :
       \/ \E value \in UNION { [1..k -> Elems] : k \in 0..MaxElems } :
            fmt = to_chars_call("vector", value, FreshBuffer(s))
       \/ \E value \in UNION { [1..k -> StrChars] : k \in 0..MaxStr } :
            fmt = to_chars_call("string_view", value, FreshBuffer(s))
  /\ commands = <<>>
  /\ cmd_line = <<>>
  /\ out = output(<<>>, 0)
  /\ pc = "formatting"
  /\ tok = <<>>
  /\ command_name = <<>>
  /\ cmd_iter = 0
  /\ overload_count = 0
  /\ res = "none"
  /\ attempted = <<>>
  /\ invoked = <<>>
  /\ bound = [vals |-> <<>>, sts |-> <<>>]
  /\ buf0 = <<>>
  /\ emitted = <<>>
  /\ calls = <<>>

\* to_chars( tag<std::vector<int>>{}, buff, value )
FormatVector ==
  /\ pc = "formatting" /\ ~fmt.done /\ fmt.type = "vector"
  /\ \E r \in to_chars_vector(fmt.buff, fmt.value) :
       fmt' = [fmt EXCEPT !.buff = r.buff, !.n = r.n, !.done = TRUE]
  /\ UNCHANGED << commands, cmd_line, out, pc, tok, command_name, cmd_iter,
                  overload_count, res, attempted, invoked, bound, buf0, emitted,
                  calls >>

\* to_chars( tag<std::string_view>{}, buff, value )
FormatString ==
  /\ pc = "formatting" /\ ~fmt.done /\ fmt.type = "string_view"
  /\ \E r \in to_chars_sv(fmt.buff, fmt.value) :
       fmt' = [fmt EXCEPT !.buff = r.buff, !.n = r.n, !.past = r.past,
                          !.trapped = r.trapped, !.done = TRUE]
  /\ UNCHANGED << commands, cmd_line, out, pc, tok, command_name, cmd_iter,
                  overload_count, res, attempted, invoked, bound, buf0, emitted,
                  calls >>

FmtNext == FormatVector \/ FormatString

FmtSpec == FmtInit /\ [][FmtNext]_vars

(* ----------------------------------------------------------------------- *)
(* Vocabulary of the properties                                            *)
(* ----------------------------------------------------------------------- *)

Done == pc \in {"returned", "thrown"}

\* the first token of the line, and the text after it
FirstToken == next(tokenizer(cmd_line)).tok
ArgsStart  == next(tokenizer(cmd_line)).text

\* every token next() yields from text, at most fuel of them
RECURSIVE Drain(_, _)
Drain(text, fuel) ==
  IF fuel = 0 THEN <<>>
  ELSE LET r == next(text)
       IN IF r.tok.has THEN <<r.tok.val>> \o Drain(r.text, fuel - 1) ELSE <<>>

\* the argument tokens of the line
LineTokens == Drain(ArgsStart, Len(cmd_line))

\* the identifier portion of a registration string: the characters before its
\* first terminator character
RECURSIVE IdentLen(_, _)
IdentLen(str, i) ==
  IF i < Len(str) /\ ~is_ident_term(str[i + 1]) THEN IdentLen(str, i + 1) ELSE i

Ident(str) == SubSeq(str, 1, IdentLen(str, 0))

\* the overload group of the command name: the first entry that matches the
\* name and the matching entries that follow it without interruption
Named(i) == command_eq(commands[i], command_name)

GroupFirst ==
  CHOOSE i \in 1..Len(commands) : Named(i) /\ \A j \in 1..(i - 1) : ~Named(j)

GroupLast ==
  CHOOSE k \in GroupFirst..Len(commands) :
    /\ \A j \in GroupFirst..k : Named(j)
    /\ k = Len(commands) \/ ~Named(k + 1)

Group == GroupFirst..GroupLast

\* the binding of candidate i, started at the first argument token of the line
BindOf(i) ==
  make_args_tuple(commands[i].types,
                  [args |-> ArgsStart,
                   default_args |-> tokenizer(remove_prefix(commands[i].name_and_args,
                                                            Len(command_name))),
                   out |-> output(<<>>, i)],
                  <<>>, <<>>)

\* every parameter of candidate i binds
Binds(i) ==
  LET o == BindOf(i).ctx.out
  IN o.arg_error_mask = 0 /\ ~o.not_enough_arguments

Range(lo, hi) == [k \in 1..(hi - lo + 1) |-> lo + k - 1]

Min(S) == CHOOSE x \in S : \A y \in S : x <= y

(* ----------------------------------------------------------------------- *)
(* C1                                                                      *)
(* ----------------------------------------------------------------------- *)

OverloadWithArity(k) == CHOOSE j \in 1..Len(OverloadTable) : Len(OverloadTable[j].types) = k

\* C2: with the all-integer overloads registered 4-parameter, 3-parameter,
\* 2-parameter, a line "f t1 .. tk" whose k tokens all convert to integers
\* invokes exactly the k-parameter overload, with the values of t1..tk, for
\* k = 2, 3, 4; for k < 2, or when no token converts, the result is
\* no_matching_overload and nothing is invoked.
C2_ArityOverloads ==
  (commands = OverloadTable /\ pc = "returned" /\ command_name = <<"f">>) =>
    LET toks == LineTokens
        k    == Len(toks)
        conv(i) == from_string_int(toks[i])
    IN /\ (k \in 2..4 /\ \A i \in 1..k : conv(i).ok) =>
            /\ res = "success"
            /\ Len(invoked) = 1
            /\ invoked[1].cmd = OverloadWithArity(k)
            /\ invoked[1].args = [i \in 1..k |-> conv(i).val]
       /\ (k < 2 \/ \A i \in 1..k : ~conv(i).ok) =>
            /\ res = "no_matching_overload"
            /\ invoked = <<>>

\* C2 witness: "f 1 0" ran the 2-parameter overload after the 4- and
\* 3-parameter overloads had read the same two tokens
C2_Witness ==
  /\ commands = OverloadTable /\ pc = "returned" /\ res = "success"
  /\ LineTokens = << <<"1">>, <<"0">> >>
  /\ attempted = <<1, 2, 3>>
  /\ invoked[1].args = <<1, 0>>

(* ----------------------------------------------------------------------- *)
(* C3                                                                      *)
(* ----------------------------------------------------------------------- *)

\* C3: when every candidate of the name group fails to bind, the result
\* depends only on the number of candidates: with one candidate it is
\* not_enough_arguments if that candidate's flag is set (error bits or not) and
\* argument_parsing_error otherwise; with two or more it is no_matching_overload.
C3_ExhaustedResult ==
  (pc = "returned" /\ attempted # <<>> /\ \A i \in Group : ~Binds(i)) =>
    IF Cardinality(Group) = 1
    THEN res = IF BindOf(GroupFirst).ctx.out.not_enough_arguments
               THEN "not_enough_arguments" ELSE "argument_parsing_error"
    ELSE res = "no_matching_overload"

\* C3 witness: a single candidate with an error bit and the missing-argument
\* flag both set returned not_enough_arguments
C3_Witness ==
  /\ pc = "returned" /\ attempted # <<>>
  /\ Cardinality(Group) = 1
  /\ out.arg_error_mask # 0 /\ out.not_enough_arguments
  /\ res = "not_enough_arguments"

(* ----------------------------------------------------------------------- *)
(* C4                                                                      *)
(* ----------------------------------------------------------------------- *)

\* the name of descriptor i: the identifier portion of its registration string
NameOf(i) == Ident(commands[i].name_and_args)

\* C4: for any command table, when the line yields no command-name token, or
\* no descriptor's name equals the first token, execute returns
\* command_not_found immediately: no candidate is attempted, no handler invoked.
C4_NotFoundImmediately ==
  (pc # "idle" /\ (~FirstToken.has \/
                   \A i \in 1..Len(commands) : NameOf(i) # FirstToken.val)) =>
    /\ pc = "returned"
    /\ res = "command_not_found"
    /\ attempted = <<>>
    /\ invoked = <<>>

(* ----------------------------------------------------------------------- *)
(* C5                                                                      *)
(* ----------------------------------------------------------------------- *)

\* C5: a descriptor matches a command-name token N if and only if N equals,
\* character for character, the identifier portion of its registration string;
\* so every candidate execute tries carries the token as its name, and
\* command_not_found with no attempt means no descriptor has that name.
C5_ExactNameMatch ==
  (pc # "idle" /\ FirstToken.has) =>
    /\ \A i \in 1..Len(commands) :
         command_eq(commands[i], FirstToken.val) <=> NameOf(i) = FirstToken.val
    /\ \A k \in 1..Len(attempted) : NameOf(attempted[k]) = FirstToken.val
    /\ (pc = "returned" /\ attempted = <<>>) =>
         \A i \in 1..Len(commands) : NameOf(i) # FirstToken.val

(* ----------------------------------------------------------------------- *)
(* C6                                                                      *)
(* ----------------------------------------------------------------------- *)

\* the defaults registered by DefaultsTable, by parameter
RegisteredDefault(i) == << <<"1">>, <<"2">>, <<"3">>, <<"4">> >>[i]

\* C6: with a default registered for each of the n = 4 parameters (written
\* "x=1", "y = 2", "z= 3" and "w =4"), a line with k <= n argument tokens binds
\* parameter i to the i-th line token for i <= k and to the i-th registered
\* default for i > k; when every supplied token converts the handler runs with
\* exactly these values.
C6_PositionalDefaults ==
  (commands = DefaultsTable /\ Done /\ command_name = <<"f">> /\
   Len(LineTokens) <= 4) =>
    LET toks == LineTokens
        k    == Len(toks)
        text(i) == IF i <= k THEN toks[i] ELSE RegisteredDefault(i)
        conv(i) == from_string_int(text(i))
    IN /\ attempted = <<1>>
       /\ Len(bound.vals) = 4
       /\ \A i \in 1..4 :
            /\ bound.sts[i] = IF conv(i).ok THEN "ok" ELSE "bad"
            /\ conv(i).ok => bound.vals[i] = conv(i).val
       /\ \A i \in (k + 1)..4 : bound.sts[i] = "ok"
       /\ (\A i \in 1..k : conv(i).ok) =>
            /\ res = "success"
            /\ Len(invoked) = 1
            /\ invoked[1].args = [i \in 1..4 |-> conv(i).val]

\* C6 witness: "f 0" ran the handler with 0 and the defaults 2, 3, 4
C6_Witness ==
  /\ commands = DefaultsTable /\ pc = "returned" /\ res = "success"
  /\ LineTokens = << <<"0">> >>
  /\ invoked[1].args = <<0, 2, 3, 4>>

(* ----------------------------------------------------------------------- *)
(* C7                                                                      *)
(* ----------------------------------------------------------------------- *)

\* the 0-indexed position of parameter p among the parameters that take text
RECURSIVE TextPos(_, _)
TextPos(types, p) ==
  IF p = 1 THEN 0
  ELSE TextPos(types, p - 1) + (IF types[p - 1] = "tokenizer" THEN 0 ELSE 1)

\* C7: when the token for parameter position p fails to convert, bit p of
\* out.arg_error_mask is set and binding continues with the remaining
\* positions; for a single candidate with n integer parameters given n tokens,
\* bit i is set exactly when token i failed to convert, and then the result is
\* argument_parsing_error and the handler is not invoked.
C7_ErrorBitPerPosition ==
  (Done /\ attempted # <<>>) =>
    LET types == commands[attempted[Len(attempted)]].types
        toks  == LineTokens
        n     == Len(types)
    IN /\ Len(bound.sts) = n
       /\ \A p \in 1..n :
            bound.sts[p] = "bad" => BitSet(out.arg_error_mask, TextPos(types, p))
       /\ (Cardinality(Group) = 1 /\ types = Ints(n) /\ Len(toks) = n) =>
            /\ \A i \in 1..n :
                 BitSet(out.arg_error_mask, i - 1) <=> ~from_string_int(toks[i]).ok
            /\ (\E i \in 1..n : ~from_string_int(toks[i]).ok) =>
                 /\ res = "argument_parsing_error"
                 /\ invoked = <<>>

(* ----------------------------------------------------------------------- *)
(* C8                                                                      *)
(* ----------------------------------------------------------------------- *)

\* the number of characters of the decimal text of v
RECURSIVE NumChars(_)
NumChars(v) ==
  IF v < 0 THEN 1 + NumChars(0 - v)
  ELSE IF v < 10 THEN 1 ELSE 1 + NumChars(v \div 10)

\* C8: when a candidate binds and its handler returns an integer whose text has
\* d characters, execute returns success for every buffer size; with a
\* non-empty buffer of size s, out.result_error is true exactly when s < d + 1,
\* and with an empty buffer result_error is false and nothing is written.
C8_ResultFormatting ==
  \A k \in 1..Len(invoked) :
    (~invoked[k].h.throws /\ ~invoked[k].h.void) =>
      LET d == NumChars(invoked[k].h.ret)
          s == Len(buf0)
      IN /\ pc = "returned" /\ res = "success"
         /\ Len(out.buffer) = s
         /\ IF s = 0 THEN ~out.result_error
            ELSE out.result_error <=> s < d + 1

\* C8 witness: a result of d characters met a buffer of exactly d bytes: the
\* flag is set and the result is success
C8_Witness ==
  /\ pc = "returned" /\ res = "success" /\ invoked # <<>>
  /\ ~invoked[1].h.void
  /\ Len(buf0) > 1
  /\ Len(buf0) = NumChars(invoked[1].h.ret)
  /\ out.result_error

(* ----------------------------------------------------------------------- *)
(* C9                                                                      *)
(* ----------------------------------------------------------------------- *)

\* C9: whenever execute returns a result other than success, no handler has
\* been invoked during the call and the caller's buffer holds what it held
\* before; a candidate left with an error bit or not_enough_arguments set was
\* not invoked.
C9_NothingRunsUnlessSuccess ==
  /\ (pc = "returned" /\ res # "success") =>
       /\ res \in {"command_not_found", "argument_parsing_error",
                   "not_enough_arguments", "no_matching_overload"}
       /\ invoked = <<>>
       /\ out.buffer = buf0
  /\ (attempted # <<>> /\ (out.arg_error_mask # 0 \/ out.not_enough_arguments)) =>
       \A k \in 1..Len(invoked) : invoked[k].cmd # attempted[Len(attempted)]
  /\ \A k \in 1..Len(invoked) : Binds(invoked[k].cmd)

\* C9 witness: two candidates were abandoned, one for a bad token and one for a
\* missing argument, and a non-empty buffer came back untouched
C9_Witness ==
  /\ pc = "returned" /\ res = "no_matching_overload"
  /\ Len(attempted) >= 2
  /\ buf0 # <<>> /\ out.buffer = buf0
  /\ \E i \in Group : BindOf(i).ctx.out.arg_error_mask # 0
  /\ \E i \in Group : BindOf(i).ctx.out.not_enough_arguments

(* ----------------------------------------------------------------------- *)
(* C10                                                                     *)
(* ----------------------------------------------------------------------- *)

\* C10: an error raised by the invoked handler is not caught or translated:
\* execute ends by that error with no result code, and the handler that raised
\* is the last candidate attempted and the last handler invoked.
C10_HandlerErrorPropagates ==
  /\ \A k \in 1..Len(invoked) :
       invoked[k].h.throws =>
         /\ pc = "thrown"
         /\ res = "none"
         /\ k = Len(invoked)
         /\ attempted[Len(attempted)] = invoked[k].cmd
  /\ pc = "thrown" =>
       /\ invoked # <<>> /\ invoked[Len(invoked)].h.throws
       /\ ~ENABLED Next

\* C10 witness: "g 1 0" raised in the two-parameter divide while the
\* one-parameter overload registered after it would have bound
C10_Witness ==
  /\ pc = "thrown" /\ commands = DivideTable
  /\ attempted = <<1>>
  /\ invoked[1].args = <<1, 0>>
  /\ Binds(2)

(* ----------------------------------------------------------------------- *)
(* C11                                                                     *)
(* ----------------------------------------------------------------------- *)

RECURSIVE BackslashRun(_, _, _)
BackslashRun(str, j, lo) ==
  IF j > lo /\ str[j - 1] = BSL THEN 1 + BackslashRun(str, j - 1, lo) ELSE 0

\* the character at position j is made literal by a backslash
EscapedAt(str, j, lo) == BackslashRun(str, j, lo) % 2 = 1

CountOf(str, ch) == Cardinality({ j \in 1..Len(str) : str[j] = ch })

\* str opens a quoted string whose closing quote never comes
UnterminatedQuote(str) ==
  /\ str # <<>> /\ str[1] \in {SQ, DQ}
  /\ \A j \in 2..Len(str) : str[j] = str[1] => EscapedAt(str, j, 2)

\* str opens a block that cannot close: it has no '}' at all, or it is free of
\* quotes and backslashes and every prefix has more '{' than '}'
UnterminatedBlock(str) ==
  /\ str # <<>> /\ str[1] = "{"
  /\ \/ CountOf(str, "}") = 0
     \/ /\ \A j \in 1..Len(str) : str[j] \notin {SQ, DQ, BSL}
        /\ \A j \in 1..Len(str) :
             CountOf(SubSeq(str, 1, j), "}") < CountOf(SubSeq(str, 1, j), "{")

\* C12: the next() that meets an unterminated quoted string or an unterminated
\* block returns absent and empties the text, and every later next() returns
\* absent: nothing after the opening quote or brace is ever produced.
C12_UnterminatedPoisons ==
  \A k \in 1..Len(emitted) :
    (UnterminatedQuote(emitted[k].before) \/ UnterminatedBlock(emitted[k].before)) =>
      \A j \in k..Len(emitted) : ~emitted[j].tok.has /\ emitted[j].text = <<>>

\* C12 witness: after a first token, an unclosed quote with a word behind it
\* was met, and two more calls returned absent
C12_Witness ==
  /\ Len(emitted) >= 4
  /\ emitted[1].tok.has
  /\ UnterminatedQuote(emitted[2].before)
  /\ \E j \in 2..Len(emitted[2].before) : emitted[2].before[j] = "a"
  /\ ~emitted[4].tok.has /\ emitted[4].text = <<>>

(* ----------------------------------------------------------------------- *)
(* C13                                                                     *)
(* ----------------------------------------------------------------------- *)

\* more '{' than '}' in the first j characters of str
OpenAt(str, j) == CountOf(SubSeq(str, 1, j), "}") < CountOf(SubSeq(str, 1, j), "{")

\* the position of the '}' that balances the '{' at position 1 (0 if none),
\* counting every brace of str
BalancePoint(str) ==
  IF \E j \in 1..Len(str) : ~OpenAt(str, j)
  THEN CHOOSE j \in 1..Len(str) : ~OpenAt(str, j) /\ \A m \in 1..(j - 1) : OpenAt(str, m)
  ELSE 0

NoneOf(str, chars) == \A j \in 1..Len(str) : str[j] \notin chars

\* text is what remains of str after a token that ends at position m: the rest
\* of str without the separators in front
RestAfter(text, str, m) ==
  \E n \in (m + 1)..(Len(str) + 1) :
    /\ text = SubSeq(str, n, Len(str))
    /\ \A i \in (m + 1)..(n - 1) : is_whitespace(str[i])
    /\ text = <<>> \/ ~is_whitespace(text[1])

\* a block without quotes or backslashes that has a ';' before it closes
SemicolonInBlock(str) ==
  /\ str # <<>> /\ str[1] = "{"
  /\ NoneOf(str, {SQ, DQ, BSL})
  /\ \E j \in 2..Len(str) : str[j] = ";" /\ \A m \in 1..j : OpenAt(str, m)

\* a closed block without quotes in which every backslash stands before a ';'
\* and every ';' inside stands after a backslash
EscapedSemicolonsInBlock(str) ==
  /\ str # <<>> /\ str[1] = "{"
  /\ NoneOf(str, {SQ, DQ})
  /\ BalancePoint(str) > 0
  /\ \A j \in 1..Len(str) : str[j] = BSL => j < Len(str) /\ str[j + 1] = ";"
  /\ \A j \in 2..BalancePoint(str) : str[j] = ";" => str[j - 1] = BSL
  /\ \E j \in 2..BalancePoint(str) : str[j] = ";"

\* str is '{', a quoted string without backslashes that holds a ';', and '}';
\* the result is the position of the closing quote (0 if str is not of this form)
QuotedInBlock(str) ==
  IF /\ Len(str) >= 4 /\ str[1] = "{" /\ str[2] \in {SQ, DQ}
     /\ \E j \in 3..(Len(str) - 1) :
          /\ str[j] = str[2] /\ str[j + 1] = "}"
          /\ \A m \in 3..(j - 1) : str[m] \notin {str[2], BSL}
          /\ \E m \in 3..(j - 1) : str[m] = ";"
  THEN CHOOSE j \in 3..(Len(str) - 1) :
         str[j] = str[2] /\ \A m \in 3..(j - 1) : str[m] # str[2]
  ELSE 0

\* str is a quoted string without backslashes that holds a ';'; the result is
\* the position of the closing quote (0 if str is not of this form)
QuotedSemicolon(str) ==
  IF /\ Len(str) >= 2 /\ str[1] \in {SQ, DQ}
     /\ \E j \in 2..Len(str) :
          /\ str[j] = str[1]
          /\ \A m \in 2..(j - 1) : str[m] \notin {str[1], BSL}
          /\ \E m \in 2..(j - 1) : str[m] = ";"
  THEN CHOOSE j \in 2..Len(str) : str[j] = str[1] /\ \A m \in 2..(j - 1) : str[m] # str[1]
  ELSE 0

PlainBalancedBlock(str) ==
  /\ str # <<>> /\ str[1] = "{"
  /\ NoneOf(str, {SQ, DQ, BSL})
  /\ BalancePoint(str) > 0

\* the position of the quote that closes the quoted string str opens (0 if none)
ClosingQuote(str) ==
  IF \E j \in 2..Len(str) : str[j] = str[1] /\ ~EscapedAt(str, j, 2)
  THEN CHOOSE j \in 2..Len(str) :
         /\ str[j] = str[1] /\ ~EscapedAt(str, j, 2)
         /\ \A m \in 2..(j - 1) : ~(str[m] = str[1] /\ ~EscapedAt(str, m, 2))
  ELSE 0

\* a quoted token is the text between its two quotes
QuotedTokenContent(e) ==
  (e.before # <<>> /\ e.before[1] \in {SQ, DQ} /\ ClosingQuote(e.before) > 0) =>
    /\ e.tok = Some(SubSeq(e.before, 2, ClosingQuote(e.before) - 1))
    /\ RestAfter(e.text, e.before, ClosingQuote(e.before))

IsSeparator(ch) == ch \in {" ", "\t", ","}

\* the words of str: its maximal runs of characters that are not separators;
\* run is the word being read
RECURSIVE WordsFrom(_, _, _)
WordsFrom(str, j, run) ==
  IF j > Len(str) THEN (IF run = <<>> THEN <<>> ELSE <<run>>)
  ELSE IF IsSeparator(str[j])
       THEN (IF run = <<>> THEN <<>> ELSE <<run>>) \o WordsFrom(str, j + 1, <<>>)
       ELSE WordsFrom(str, j + 1, Append(run, str[j]))

Words(str) == WordsFrom(str, 1, <<>>)

\* the calls of next() made so far returned the words of the input, one by
\* one, and absent after the last word
TokensAreWords ==
  /\ \A k \in 1..Len(emitted) :
       emitted[k].tok = IF k <= Len(Words(cmd_line))
                        THEN Some(Words(cmd_line)[k]) ELSE Absent

IsTerminator(ch) == ch \in {" ", "\t", ",", ";", "=", SQ, DQ, "{", "}"}

\* the length of the identifier str begins with: the characters before the
\* first terminator that no backslash makes literal
IdentifierEnd(str) ==
  IF \E j \in 1..Len(str) : IsTerminator(str[j]) /\ ~EscapedAt(str, j, 1)
  THEN (CHOOSE j \in 1..Len(str) :
          /\ IsTerminator(str[j]) /\ ~EscapedAt(str, j, 1)
          /\ \A m \in 1..(j - 1) : ~(IsTerminator(str[m]) /\ ~EscapedAt(str, m, 1))) - 1
  ELSE Len(str)

\* C16: in an identifier token and in a quoted token, a character that follows
\* an unescaped backslash never ends the token, the backslashes stay in the
\* token, and a doubled backslash does not escape the character after it: the
\* token ends at the first terminator (closing quote) that stands after an even
\* number of consecutive backslashes.
C16_BackslashEscaping ==
  \A k \in 1..Len(emitted) :
    LET e == emitted[k]
        b == e.before
    IN /\ (b # <<>> /\ b[1] \notin {SQ, DQ, "{", "=", ";"}) =>
            /\ e.tok = Some(SubSeq(b, 1, IdentifierEnd(b)))
            /\ RestAfter(e.text, b, IdentifierEnd(b))
       /\ (b # <<>> /\ b[1] \in {SQ, DQ}) =>
            IF ClosingQuote(b) > 0
            THEN /\ e.tok = Some(SubSeq(b, 2, ClosingQuote(b) - 1))
                 /\ RestAfter(e.text, b, ClosingQuote(b))
            ELSE ~e.tok.has

\* C16 witness: in the input a\\'b c' the quote after the doubled backslash
\* ended the identifier a\\ and opened the quoted token "b c"
C16_Witness ==
  /\ Len(emitted) >= 2
  /\ emitted[1].tok = Some(<<"a", BSL, BSL>>)
  /\ emitted[2].before # <<>> /\ emitted[2].before[1] = SQ
  /\ emitted[2].tok = Some(<<"b", " ", "c">>)

(* ----------------------------------------------------------------------- *)
(* C17                                                                     *)
(* ----------------------------------------------------------------------- *)

\* std::nullopt as a bound argument
NoValue == [has |-> FALSE, val |-> 0]

\* C17: an optional parameter with neither a line token nor a default binds to
\* the empty state and sets neither not_enough_arguments nor an error bit, so
\* a candidate whose other parameters bind is invoked; a token that does not
\* convert to the inner type sets the error bit and fails the candidate.
C17_OptionalParameter ==
  (Done /\ attempted # <<>>) =>
    LET types == commands[attempted[Len(attempted)]].types
        toks  == LineTokens
    IN /\ \A p \in 1..Len(types) :
            (types[p] = "optional_int" /\ bound.sts[p] = "none") =>
               bound.vals[p] = NoValue
       /\ out.not_enough_arguments =>
            \E p \in 1..Len(types) : types[p] # "optional_int" /\ bound.sts[p] = "none"
       /\ (\A p \in 1..Len(types) : bound.sts[p] = "ok" \/
              (types[p] = "optional_int" /\ bound.sts[p] = "none")) =>
            /\ out.arg_error_mask = 0 /\ ~out.not_enough_arguments
            /\ invoked # <<>> /\ invoked[Len(invoked)].cmd = attempted[Len(attempted)]
       /\ (commands = OptionalTable /\ toks = <<>>) =>
            /\ bound.sts = <<"none">>
            /\ pc = "returned" /\ res = "success"
            /\ invoked[1].args = <<NoValue>> /\ invoked[1].h.ret = 42
       /\ (commands = OptionalTable /\ toks # <<>>) =>
            IF from_string_int(toks[1]).ok
            THEN /\ res = "success"
                 /\ invoked[1].args = <<[has |-> TRUE, val |-> from_string_int(toks[1]).val]>>
            ELSE /\ BitSet(out.arg_error_mask, 0)
                 /\ res = "argument_parsing_error"
                 /\ invoked = <<>>

\* C17 witness: "f" against foo(std::optional<int>) ran the handler with no
\* value
C17_Witness ==
  /\ commands = OptionalTable /\ cmd_line = <<"f">>
  /\ pc = "returned" /\ res = "success"
  /\ invoked[1].args = <<NoValue>>
  /\ ~out.not_enough_arguments /\ out.arg_error_mask = 0

(* ----------------------------------------------------------------------- *)
(* C18                                                                     *)
(* ----------------------------------------------------------------------- *)

\* the elements of the sequence toks from position lo on
From(toks, lo) == SubSeq(toks, lo, Len(toks))

\* C18: a tokenizer-typed (tail) parameter takes no token while the arguments
\* are bound, sets neither not_enough_arguments nor an error bit and leaves the
\* defaults where they are; the handler gets the argument tokenizer positioned
\* after the tokens the other parameters took, and draining it yields exactly
\* the remaining line tokens in order.  A handler with only a tail parameter
\* succeeds with any number of tokens.
C18_TailParameter ==
  LET toks == LineTokens
      k    == Len(toks)
      conv(i) == from_string_int(toks[i])
  IN /\ (commands = TailTable /\ Done /\ command_name = <<"f">>) =>
          /\ pc = "returned" /\ res = "success"
          /\ bound.sts = <<"tail">>
          /\ out.arg_count = 0 /\ out.arg_error_mask = 0
          /\ ~out.not_enough_arguments
          /\ Len(invoked) = 1
          /\ invoked[1].h.drained = toks
     /\ (commands = TailMiddleTable /\ Done /\ command_name = <<"f">>) =>
          /\ bound.sts[2] = "tail"
          /\ out.not_enough_arguments <=> k = 0
          /\ k >= 1 =>
               /\ out.arg_count = 2
               /\ BitSet(out.arg_error_mask, 0) <=> ~conv(1).ok
               /\ BitSet(out.arg_error_mask, 1) <=> (k >= 2 /\ ~conv(2).ok)
          /\ (k >= 1 /\ conv(1).ok /\ (k >= 2 => conv(2).ok)) =>
               /\ res = "success"
               /\ Len(invoked) = 1
               /\ bound.vals[1] = conv(1).val
               /\ bound.vals[3] = IF k >= 2 THEN conv(2).val ELSE 7
               /\ invoked[1].h.drained = From(toks, 3)

\* C18 witness: with the tail parameter between two int parameters, a line of
\* four tokens gave the first two to the int parameters and the last two to
\* the handler's tokenizer
C18_Witness ==
  /\ commands = TailMiddleTable /\ pc = "returned" /\ res = "success"
  /\ Len(LineTokens) = 4
  /\ invoked[1].h.drained = From(LineTokens, 3)

(* ----------------------------------------------------------------------- *)
(* C20                                                                     *)
(* ----------------------------------------------------------------------- *)

\* C20: after execute returns command_not_found the matched descriptor of the
\* output report, out.cmd, is absent (null), also when the report was filled
\* by an earlier execute call and is used again.
C20_NotFoundClearsCmd ==
  (pc = "returned" /\ res = "command_not_found") => out.cmd = 0

\* execute run to its end on a frame with no other call in progress: the set of
\* frames it can finish in
RECURSIVE run_alone(_, _)
run_alone(cmds, st) ==
  IF st.pc = "loop"
  THEN UNION { run_alone(cmds, s2) : s2 \in try_steps(cmds, st) }
  ELSE {st}

alone(cmds, st) ==
  run_alone(cmds, lookup_step(cmds, frame_of(st.cmd_line, st.out0)))

Finished(st) == st.pc \in {"returned", "thrown"}

AllNamed == { i \in 1..Len(commands) : Named(i) }

\* C21: the overload group of a name is every table entry with that name,
\* adjacent or not: when execute has ended after trying candidates, the
\* candidates tried are, in table order, exactly the entries with the command
\* name up to the first one that binds (all of them when none binds).
C21_GroupIsEveryEntry ==
  (Done /\ attempted # <<>>) =>
    LET binders == { i \in AllNamed : Binds(i) }
    IN /\ \A k \in 1..(Len(attempted) - 1) : attempted[k] < attempted[k + 1]
       /\ \A i \in 1..Len(commands) :
            (\E k \in 1..Len(attempted) : attempted[k] = i) <=>
              (i \in AllNamed /\ (binders = {} \/ i <= Min(binders)))

(* ----------------------------------------------------------------------- *)
(* C22                                                                     *)
(* ----------------------------------------------------------------------- *)

\* the 1-based index of the first ';' of str that is not inside quotes or a
\* block and not preceded by an escaping backslash; Len(str) + 1 when there is
\* none. q is the open quote (NUL outside quotes), depth the open blocks, esc
\* whether the previous character is an escaping backslash
RECURSIVE TopSemicolon(_, _, _, _, _)
TopSemicolon(str, i, q, depth, esc) ==
  IF i > Len(str) THEN i
  ELSE LET ch == str[i] IN
       IF esc THEN TopSemicolon(str, i + 1, q, depth, FALSE)
       ELSE IF ch = BSL THEN TopSemicolon(str, i + 1, q, depth, TRUE)
       ELSE IF q # NUL
       THEN TopSemicolon(str, i + 1, IF ch = q THEN NUL ELSE q, depth, FALSE)
       ELSE IF ch \in {SQ, DQ} THEN TopSemicolon(str, i + 1, ch, depth, FALSE)
       ELSE IF ch = "{" THEN TopSemicolon(str, i + 1, q, depth + 1, FALSE)
       ELSE IF ch = "}" /\ depth > 0 THEN TopSemicolon(str, i + 1, q, depth - 1, FALSE)
       ELSE IF ch = ";" /\ depth = 0 THEN i
       ELSE TopSemicolon(str, i + 1, q, depth, FALSE)

\* str without its first top-level ';' and everything after it
BeforeSemicolon(str) == SubSeq(str, 1, TopSemicolon(str, 1, NUL, 0, FALSE) - 1)

\* the table with every description removed
WithoutDescriptions(cmds) ==
  [i \in 1..Len(cmds) |->
     [cmds[i] EXCEPT !.name_and_args = BeforeSemicolon(@)]]

\* the output report execute was entered with
EnteredOut == IF attempted = <<>> THEN out ELSE output(buf0, 0)

\* C22: text after the first unescaped, unquoted top-level ';' is never bound,
\* in the command line and in the registration strings: execute ends with the
\* result and the output report it has when the line is cut before its ';' and
\* every registration string is cut before its ';'.
C22_NothingBoundAfterSemicolon ==
  Done =>
    \E a \in alone(WithoutDescriptions(commands),
                   frame_of(BeforeSemicolon(cmd_line), EnteredOut)) :
      a.pc = pc /\ a.res = res /\ a.out = out

(* ----------------------------------------------------------------------- *)
(* C23                                                                     *)
(* ----------------------------------------------------------------------- *)

\* the types of the candidate tried last
LastTypes == commands[attempted[Len(attempted)]].types

\* the positions of the last binding that found neither a line token nor a
\* default and set not_enough_arguments
MissingAt ==
  { p \in 1..Len(bound.sts) :
      bound.sts[p] = "none" /\ LastTypes[p] # "optional_int" }

\* the positions before p that obtained a token
TokensBefore(p) == { q \in 1..(p - 1) : bound.sts[q] \in {"ok", "bad"} }

\* C23: binding stops at the first position with no token: once a position has
\* neither a line token nor a registered default, not_enough_arguments is set
\* and no later position of the candidate is parsed; later positions set no
\* bit of arg_error_mask and do not increase out.arg_count.
C23_BindingStopsAtMissing ==
  (Done /\ attempted # <<>> /\ MissingAt # {}) =>
    LET p == Min(MissingAt)
    IN /\ out.not_enough_arguments
       /\ \A q \in (p + 1)..Len(bound.sts) : bound.sts[q] \notin {"ok", "bad"}
       /\ out.arg_count = Cardinality(TokensBefore(p))
       /\ \A b \in 0..MaxArgs : BitSet(out.arg_error_mask, b) => b < out.arg_count
       /\ \A b \in 0..MaxArgs :
            BitSet(out.arg_error_mask, b) => b < Cardinality(TokensBefore(p))

(* ----------------------------------------------------------------------- *)
(* C24                                                                     *)
(* ----------------------------------------------------------------------- *)

\* the candidate tried last
LastTried == attempted[Len(attempted)]

\* C24: the output report is reset before each candidate attempt, the buffer
\* being kept: when execute returns success arg_error_mask is 0,
\* not_enough_arguments is false and out.cmd is the invoked descriptor, also
\* after earlier candidates failed and whatever the report held on entry; after
\* a failed call out.cmd, the error bits and the flags are those of the last
\* candidate tried alone, result_error is false and the buffer is untouched.
C24_ReportResetPerCandidate ==
  (attempted # <<>> /\ pc \in {"loop", "returned"}) =>
    /\ out.cmd = LastTried
    /\ Len(out.buffer) = Len(buf0)
    /\ res = "success" =>
         /\ out.arg_error_mask = 0
         /\ ~out.not_enough_arguments
         /\ Len(invoked) = 1 /\ invoked[1].cmd = out.cmd
    /\ res # "success" =>
         /\ out.arg_error_mask = BindOf(LastTried).ctx.out.arg_error_mask
         /\ out.not_enough_arguments = BindOf(LastTried).ctx.out.not_enough_arguments
         /\ ~out.result_error
         /\ out.buffer = buf0

\* C24 witness: success on the second candidate after the first one failed with
\* an error bit, the report carrying no trace of the first
C24_Witness ==
  /\ pc = "returned" /\ res = "success"
  /\ attempted = <<1, 2>>
  /\ BindOf(1).ctx.out.arg_error_mask # 0
  /\ out.arg_error_mask = 0 /\ out.cmd = 2

(* ----------------------------------------------------------------------- *)
(* C25                                                                     *)
(* ----------------------------------------------------------------------- *)

\* C25: after execute, out.arg_count is the number of arguments of the last
\* candidate attempted that were parsed successfully; an argument whose token
\* was obtained but failed to convert is not counted.
C25_ArgCountOfParsed ==
  (Done /\ attempted # <<>>) =>
    out.arg_count = Cardinality({ p \in 1..Len(bound.sts) : bound.sts[p] = "ok" })

(* ----------------------------------------------------------------------- *)
(* C26                                                                     *)
(* ----------------------------------------------------------------------- *)

\* the texts of the elements, each preceded by one space
RECURSIVE SpacedTexts(_)
SpacedTexts(value) ==
  IF value = <<>> THEN <<>>
  ELSE <<" ">> \o IntText(Head(value)) \o SpacedTexts(Tail(value))

\* '{', the elements separated by single spaces, '}', and the terminator
BlockText(value) ==
  <<"{">> \o (IF value = <<>> THEN <<>> ELSE Tail(SpacedTexts(value)))
          \o <<"}", NUL>>

\* C26: a collection result is written as '{', its elements in order separated
\* by single spaces, '}' and a terminator, for every element count, the empty
\* collection being written as {}; the returned count is the written length
\* with the terminator, and a buffer that has room for this text is enough.
C26_BlockFormatting ==
  (pc = "formatting" /\ fmt.done /\ fmt.type = "vector") =>
    /\ Len(fmt.buff) >= Len(BlockText(fmt.value)) => fmt.n # 0
    /\ fmt.n # 0 =>
         /\ fmt.n = Len(BlockText(fmt.value))
         /\ SubSeq(fmt.buff, 1, fmt.n) = BlockText(fmt.value)

(* ----------------------------------------------------------------------- *)
(* C27                                                                     *)
(* ----------------------------------------------------------------------- *)

\* C27: formatting a string never writes outside the caller's buffer: for every
\* value and every buffer size to_chars either returns 0 and has written
\* nothing behind the buffer, or has written a quoted, escaped text that ends
\* with the terminator, whose length is the returned count and at most the
\* size of the buffer.
C27_StringStaysInBuffer ==
  (pc = "formatting" /\ fmt.done /\ fmt.type = "string_view") =>
    /\ ~fmt.trapped
    /\ fmt.past = <<>>
    /\ fmt.n <= Len(fmt.buff)
    /\ fmt.n # 0 =>
         /\ fmt.buff[1] \in {SQ, DQ}
         /\ SubSeq(fmt.buff, 2, fmt.n - 2) = escaped(fmt.value, fmt.buff[1])
         /\ fmt.buff[fmt.n - 1] = fmt.buff[1]
         /\ fmt.buff[fmt.n] = NUL

(* ----------------------------------------------------------------------- *)
(* C28                                                                     *)
(* ----------------------------------------------------------------------- *)

\* C28: every next() call that returns a token removes at least one character
\* from the remaining text, so on every input, a stray '}' at top level
\* included, the calls return absent once there have been more calls than the
\* input has characters.
C28_TokenizerProgress ==
  pc = "tokenizing" =>
    /\ \A k \in 1..Len(emitted) :
         emitted[k].tok.has => Len(emitted[k].text) < Len(emitted[k].before)
    /\ Len(emitted) > Len(cmd_line) => ~emitted[Len(emitted)].tok.has

(* ----------------------------------------------------------------------- *)
(* C29                                                                     *)
(* ----------------------------------------------------------------------- *)

\* the conversion of token str for a parameter of the given type, and the
\* value the parameter is bound to
ConvOf(type, str) == from_string(IF type = "optional_int" THEN "int" ELSE type, str)

BoundOf(type, str) ==
  IF type = "optional_int" THEN [has |-> TRUE, val |-> ConvOf(type, str).val]
  ELSE ConvOf(type, str).val

\* candidate i has no tail parameter and the line has a converting token for
\* each of its parameters
FirstTokensConvert(i) ==
  LET types == commands[i].types
  IN /\ \A p \in 1..Len(types) : types[p] # "tokenizer"
     /\ Len(LineTokens) >= Len(types)
     /\ \A p \in 1..Len(types) : ConvOf(types[p], LineTokens[p]).ok

\* C29: surplus tokens are ignored: a candidate with n text-taking parameters
\* and no tail parameter binds whenever the first n line tokens convert,
\* whatever tokens follow, and is invoked with the values of these n tokens
\* unless an earlier candidate of the group was invoked; so a shorter overload
\* registered before a longer one is the one invoked on every line it can bind.
C29_SurplusTokensIgnored ==
  (Done /\ attempted # <<>>) =>
    \A i \in Group :
      FirstTokensConvert(i) =>
        /\ Len(invoked) = 1
        /\ invoked[1].cmd <= i
        /\ pc = "returned" => res = "success"
        /\ invoked[1].cmd = i =>
             invoked[1].args =
               [p \in 1..Len(commands[i].types) |->
                  BoundOf(commands[i].types[p], LineTokens[p])]

\* C29 witness: "f 1 0 ..." ran the one-parameter overload with 1 although the
\* two-parameter overload registered after it binds the same line
C29_Witness ==
  /\ commands = ShadowTable /\ pc = "returned" /\ res = "success"
  /\ Len(LineTokens) >= 3
  /\ invoked[1].cmd = 1 /\ invoked[1].args = <<1>>
  /\ FirstTokensConvert(2)

(* ----------------------------------------------------------------------- *)
(* C30                                                                     *)
(* ----------------------------------------------------------------------- *)

\* the registered defaults of candidate i by text-taking position, as tokens
\* (absent where the registration gives none), n of them
RECURSIVE DefaultsFrom(_, _)
DefaultsFrom(default_args, n) ==
  IF n = 0 THEN <<>>
  ELSE LET d == default_value_of(next(default_args))
       IN <<d.tok>> \o DefaultsFrom(d.text, n - 1)

DefaultsOf(i) ==
  DefaultsFrom(tokenizer(remove_prefix(commands[i].name_and_args, Len(command_name))),
               Len(commands[i].types))

\* what position p of the last binding must show when its text is str
TakenFrom(p, str) ==
  LET conv == from_string(LastTypes[p], str)
  IN IF conv.ok THEN bound.sts[p] = "ok" /\ bound.vals[p] = conv.val
     ELSE /\ bound.sts[p] = "bad"
          /\ out.arg_error_mask # 0
          /\ res # "success" /\ invoked = <<>>

\* C30: a default is used only when the line token is absent.  For every
\* parameter of the candidate tried last that is parsed by parse(tag<T>): when
\* the line has a token for the position the token is what is converted, and
\* when it fails to convert its error is reported and the candidate fails, the
\* default being left unused even if it converts; when the line has no token
\* left (end of input, ';', unterminated quote or block) the position takes its
\* registered default, or sets not_enough_arguments when it has none.
C30_DefaultOnlyWhenAbsent ==
  (Done /\ attempted # <<>>) =>
    \A p \in 1..Len(LastTypes) :
      LastTypes[p] \in {"int", "string_view"} =>
        LET k == TextPos(LastTypes, p) + 1
            d == DefaultsOf(LastTried)[k]
        IN IF k <= Len(LineTokens) THEN TakenFrom(p, LineTokens[k])
           ELSE IF d.has THEN TakenFrom(p, d.val)
           ELSE bound.sts[p] = "none" /\ out.not_enough_arguments

\* C30 witness: the line's token a failed to convert where the default 1 was
\* registered, and the next position, without a line token, took its default 2
C30_Witness ==
  /\ commands = DefaultsTable /\ pc = "returned"
  /\ LineTokens = << <<"a">> >>
  /\ DefaultsOf(1)[1] = Some(<<"1">>)
  /\ bound.sts = <<"bad", "ok", "ok", "ok">>
  /\ bound.vals[2] = 2
  /\ res = "argument_parsing_error"

====
